---- MODULE Spec2Model ----
(***************************************************************************)
(* Model of sukusho_summary: the locator classes (BaseFinder and its four  *)
(* variants), the construction of SukushoSummary (including                *)
(* _init_webdriver) and the browse_site pipeline.                          *)
(*                                                                         *)
(* The browser, the image codec and the vision model are the environment:  *)
(* every call into them either fails or yields a value drawn from a small  *)
(* set.  Coordinates, zoom and the device pixel ratio are integers here;   *)
(* Python computes the same products in floating point, which is exact for *)
(* these values, and PIL's rounding of the crop box is then the identity.  *)
(* element.location and element.size are read from the located element;    *)
(* they are page coordinates, so the box found by the lookup is the box     *)
(* both computations use.  driver.quit() is taken not to raise.             *)
(***************************************************************************)
EXTENDS Integers, Sequences, FiniteSets, TLC

\* ------------------------------------------------------------------ bounds
\* Each input is drawn from a negative value (where the type allows one), zero
\* and the bound.
MaxMargin == 1
MaxCoord == 3
MaxScroll == 1
MaxZoom == 2

\* ------------------------------------------------------- program constants
DEFAULT_WINDOW_SIZE == <<1920, 1080>>
DEFAULT_IMPLICITLY_WAIT == 10
DEFAULT_ZOOM == 1

\* Python's None for tuple-valued fields, and for string-valued fields.
None == <<>>
Null == "None"

Max(a, b) == IF a >= b THEN a ELSE b

\* The five progress messages of browse_site, in source order:
\* 'サイトをブラウズします...', 'サイトを解析します...', '撮影領域を検出します...',
\* 'スクリーンショットを撮影します...', 'スクリーンショットをAIで処理します...'
MSG_BROWSE == "browse"
MSG_ANALYZE == "analyze"
MSG_DETECT == "detect_area"
MSG_SHOOT == "take_screenshot"
MSG_AI == "process_with_ai"

\* ------------------------------------------------------------ input sets
FinderKinds == {"XpathFinder", "StringFinder", "IdFinder", "CssFinder"}

\* main.py: StringFinder('購入', margin_top=1, margin_bottom=120,
\*                       margin_left=20, margin_right=20)
\* as <<top, left, right, bottom>>
SampleMargins == <<1, 20, 20, 120>>
SampleBox == [x |-> 100, y |-> 200, width |-> 50, height |-> 20]

MarginValues == {-1, 0, MaxMargin}
MarginTuples ==
    {<<t, l, r, b>> : t \in MarginValues, l \in MarginValues,
                      r \in MarginValues, b \in MarginValues}
        \cup {SampleMargins}

\* Where find_element may report the element: left of and above the origin,
\* on an axis, or inside the page.
BoxPositions ==
    {<<-1, -1>>, <<0, MaxCoord>>, <<MaxCoord, 0>>, <<MaxCoord, MaxCoord>>}
Boxes ==
    {[x |-> at[1], y |-> at[2], width |-> 1, height |-> 1] : at \in BoxPositions}
        \cup {SampleBox}

\* Where a freshly loaded page stands: at the origin, or scrolled already.
InitialScrolls == {<<0, 0>>, <<MaxScroll, MaxScroll>>}
Zooms == {0, DEFAULT_ZOOM, MaxZoom}
\* The window.devicePixelRatio and viewport of the session: headless desktop
\* Chrome as configured in lines 173-182 renders at ratio 1, an emulated device
\* brings its own metrics.
DesktopPixelRatios == {1}
EmulatedPixelRatios == {2}
EmulatedViewport == <<375, 812>>

VARIABLES
    pc,               \* position of the calling script / of browse_site
    finder,           \* the locator handed to SukushoSummary: None or <<record>>
    zoom,             \* self.zoom
    device_emulation, \* self.device_emulation is set
    window_size,      \* self.window_size
    listener,         \* self.listener: Null or "callable"
    driver,           \* the browser session: "absent", "live" or "quit"
    page,             \* live page state of the browser
    element,          \* local `element` of browse_site: None or <<box>>
    crop_area,        \* local `crop_area` of browse_site: None or <<l, t, r, b>>
    screenshot,       \* content of the screenshot file: None or <<record>>
    result,           \* local `result` of browse_site
    error,            \* the exception in flight or delivered to the caller
    trace             \* every constructor call, listener delivery and external
                      \* call so far, in order, as <<operation, arguments>>

vars == <<pc, finder, zoom, device_emulation, window_size, listener, driver,
          page, element, crop_area, screenshot, result, error, trace>>

Init ==
    /\ pc = "start"
    /\ finder = None
    /\ zoom = DEFAULT_ZOOM
    /\ device_emulation = FALSE
    /\ window_size = DEFAULT_WINDOW_SIZE
    /\ listener = Null
    /\ driver = "absent"
    /\ page = [scroll_x |-> 0, scroll_y |-> 0, dpr |-> 1, viewport |-> <<0, 0>>]
    /\ element = None
    /\ crop_area = None
    /\ screenshot = None
    /\ result = Null
    /\ error = Null
    /\ trace = <<>>

\* ------------------------------------------------------------- locators
\* A check that looks at the first two margins only.
MarginsRejected_TopLeftOnly(t, l, r, b) == t < 0 \/ l < 0

\* BaseFinder.__init__, the check of line 35: any(margin < 0 ...)
MarginsRejected(t, l, r, b) == \E m \in {t, l, r, b} : m < 0

\* BaseFinder.__init__, lines 38-41, and the attribute each variant adds.
NewFinder(kind, t, l, r, b) ==
    [kind |-> kind, margin_top |-> t, margin_left |-> l,
     margin_right |-> r, margin_bottom |-> b]

\* find_element of each variant: the By strategy handed to the driver.
Lookup(f) ==
    CASE f.kind = "XpathFinder" -> "By.XPATH"
      [] f.kind = "StringFinder" -> "By.XPATH contains(text())"
      [] f.kind = "IdFinder" -> "By.ID"
      [] f.kind = "CssFinder" -> "By.CSS_SELECTOR"

\* A caller constructs a locator of the given kind (sample.py 56-66, main.py 55).
ConstructFinder(kind) ==
    /\ pc = "start"
    /\ \E m \in MarginTuples :
        /\ trace' = Append(trace, <<kind, m>>)
        /\ IF MarginsRejected(m[1], m[2], m[3], m[4])
           THEN /\ error' = "ValueError"
                /\ pc' = "finder_raised"
                /\ UNCHANGED finder
           ELSE /\ finder' = <<NewFinder(kind, m[1], m[2], m[3], m[4])>>
                /\ pc' = "new_summary"
                /\ UNCHANGED error
    /\ UNCHANGED <<zoom, device_emulation, window_size, listener, driver,
                   page, element, crop_area, screenshot, result>>

NewXpathFinder == ConstructFinder("XpathFinder")
NewStringFinder == ConstructFinder("StringFinder")
NewIdFinder == ConstructFinder("IdFinder")
NewCssFinder == ConstructFinder("CssFinder")

\* sample.py 56-57: no --finder-type, the orchestrator gets finder=None.
NoFinder ==
    /\ pc = "start"
    /\ pc' = "new_summary"
    /\ UNCHANGED <<finder, zoom, device_emulation, window_size, listener,
                   driver, page, element, crop_area, screenshot, result,
                   error, trace>>

\* ------------------------------------------------- SukushoSummary.__init__
\* Lines 122-128: the fields are stored; line 129 then calls _init_webdriver.
SukushoSummaryInit ==
    /\ pc = "new_summary"
    /\ \E z \in Zooms, emu \in BOOLEAN :
        /\ zoom' = z
        /\ device_emulation' = emu
    /\ window_size' = DEFAULT_WINDOW_SIZE
    /\ pc' = "launch"
    /\ UNCHANGED <<finder, listener, driver, page, element, crop_area,
                   screenshot, result, error, trace>>

\* _init_webdriver, line 187: webdriver.Chrome(options=...).
LaunchChrome ==
    /\ pc = "launch"
    /\ \/ /\ error' = "WebDriverException"
          /\ pc' = "init_raised"
          /\ UNCHANGED <<driver, page, trace>>
       \/ /\ driver' = "live"
          /\ \E d \in (IF device_emulation THEN EmulatedPixelRatios
                       ELSE DesktopPixelRatios) :
                page' = [scroll_x |-> 0, scroll_y |-> 0, dpr |-> d,
                         viewport |-> IF device_emulation THEN EmulatedViewport
                                      ELSE <<0, 0>>]
          /\ trace' = Append(trace, <<"Chrome", <<device_emulation>>>>)
          /\ pc' = "implicitly_wait"
          /\ UNCHANGED error
    /\ UNCHANGED <<finder, zoom, device_emulation, window_size, listener,
                   element, crop_area, screenshot, result>>

\* _init_webdriver, line 188: driver.implicitly_wait(...). No handler encloses
\* it: a failure leaves _init_webdriver and __init__ with the session live.
ImplicitlyWait ==
    /\ pc = "implicitly_wait"
    /\ trace' = Append(trace, <<"implicitly_wait", <<DEFAULT_IMPLICITLY_WAIT>>>>)
    /\ \/ /\ error' = "WebDriverException"
          /\ pc' = "init_raised"
       \/ /\ pc' = "window_size"
          /\ UNCHANGED error
    /\ UNCHANGED <<finder, zoom, device_emulation, window_size, listener,
                   driver, page, element, crop_area, screenshot, result>>

\* _init_webdriver, lines 190-198: read the emulated viewport or set the size.
SetWindowSize ==
    /\ pc = "window_size"
    /\ \/ /\ error' = "WebDriverException"
          /\ pc' = "init_raised"
          /\ trace' = Append(trace, <<"window_size", <<>>>>)
          /\ UNCHANGED <<window_size, page>>
       \/ /\ IF device_emulation
             THEN /\ window_size' = page.viewport
                  /\ UNCHANGED page
             ELSE /\ page' = [page EXCEPT !.viewport = window_size]
                  /\ UNCHANGED window_size
          /\ trace' = Append(trace, <<"window_size", <<>>>>)
          /\ pc' = "constructed"
          /\ UNCHANGED error
    /\ UNCHANGED <<finder, zoom, device_emulation, listener, driver,
                   element, crop_area, screenshot, result>>

\* on_progress, lines 131-135. A non-callable argument raises ValueError
\* before the assignment and changes nothing.
OnProgress ==
    /\ pc = "constructed"
    /\ listener = Null
    /\ listener' = "callable"
    /\ UNCHANGED <<pc, finder, zoom, device_emulation, window_size, driver,
                   page, element, crop_area, screenshot, result, error, trace>>

\* ------------------------------------------------------------ browse_site
\* Everything browse_site leaves alone while it only moves on or fails.
Locals == <<element, crop_area, screenshot, result>>
Config == <<finder, zoom, device_emulation, window_size, listener>>

\* An exception inside the try block of browse_site: control goes to finally.
Raise(e) ==
    /\ error' = e
    /\ pc' = "finally"

\* trigger_progress, lines 137-141, called at `from`; control continues at `to`.
\* The listener is caller code: any call of it may raise.
TriggerProgress(from, message, to) ==
    /\ pc = from
    /\ IF listener # Null
       THEN /\ trace' = Append(trace, <<"progress", <<message>>>>)
            /\ \/ Raise("ListenerError")
               \/ pc' = to /\ UNCHANGED error
       ELSE /\ pc' = to
            /\ UNCHANGED <<trace, error>>
    /\ UNCHANGED <<Config, Locals, driver, page>>

\* Line 147.
ProgressBrowse == TriggerProgress("constructed", MSG_BROWSE, "get")

\* Line 148: self.driver.get(self.url). A loaded page may be scrolled already
\* (a URL with a fragment).
Navigate ==
    /\ pc = "get"
    /\ trace' = Append(trace, <<"get", <<>>>>)
    /\ \/ Raise("WebDriverException") /\ UNCHANGED page
       \/ /\ \E at \in InitialScrolls :
                page' = [page EXCEPT !.scroll_x = at[1], !.scroll_y = at[2]]
          /\ pc' = "zoom"
          /\ UNCHANGED error
    /\ UNCHANGED <<Config, Locals, driver>>

\* Line 149: execute_script("document.body.style.zoom = ...").
InjectZoom ==
    /\ pc = "zoom"
    /\ trace' = Append(trace, <<"zoom", <<zoom>>>>)
    /\ \/ Raise("WebDriverException")
       \/ pc' = "progress_analyze" /\ UNCHANGED error
    /\ UNCHANGED <<Config, Locals, driver, page>>

\* Line 151 left out: the stage starts without its message.
ProgressAnalyze_Missing ==
    /\ pc = "progress_analyze"
    /\ pc' = "scroll_to_element"
    /\ UNCHANGED <<Config, Locals, driver, page, trace, error>>

\* Line 151.
ProgressAnalyze ==
    TriggerProgress("progress_analyze", MSG_ANALYZE, "scroll_to_element")

\* What driver.find_element can raise.
LookupFailures == {"NoSuchElementException", "WebDriverException"}

\* Without the except clause every lookup failure passes through as it is.
FindElementRaises_Untranslated(exc) == exc

\* _find_element, lines 201-204: what leaves it when the lookup raised exc.
FindElementRaises(exc) ==
    IF exc = "NoSuchElementException" THEN "ElementNotFoundError" ELSE exc

\* The `if not self.finder` guard placed after the lookup instead of before it.
FindElement_LooksUpFirst ==
    /\ pc = "scroll_to_element"
    /\ \E outcome \in {"found"} \cup LookupFailures :
          /\ trace' = Append(trace, <<"find_element", <<"By.XPATH", outcome>>>>)
          /\ IF outcome # "found"
             THEN Raise(FindElementRaises(outcome)) /\ UNCHANGED element
             ELSE /\ element' = None
                  /\ pc' = "progress_detect"
                  /\ UNCHANGED error
    /\ UNCHANGED <<Config, crop_area, screenshot, result, driver, page>>

\* _scroll_to_element, lines 207-210, with _find_element, lines 200-204.
FindElement ==
    /\ pc = "scroll_to_element"
    /\ IF finder = None
       THEN /\ element' = None
            /\ pc' = "progress_detect"
            /\ UNCHANGED <<trace, error>>
       ELSE \/ \E box \in Boxes :
                  /\ trace' = Append(trace,
                        <<"find_element", <<Lookup(finder[1]), "found">>>>)
                  /\ element' = <<box>>
                  /\ pc' = "scroll_by"
                  /\ UNCHANGED error
            \/ \E exc \in LookupFailures :
                  /\ trace' = Append(trace,
                        <<"find_element", <<Lookup(finder[1]), exc>>>>)
                  /\ Raise(FindElementRaises(exc))
                  /\ UNCHANGED element
    /\ UNCHANGED <<Config, crop_area, screenshot, result, driver, page>>

\* The same products without the clamp at 0.
ScrollDelta_Unclamped(box, f, x_offset, y_offset, z) ==
    <<(box.x - x_offset - f.margin_left) * z,
      (box.y - y_offset - f.margin_top) * z>>

\* _scroll_to_element, lines 222-223.
ScrollDelta(box, f, x_offset, y_offset, z) ==
    <<Max(0, (box.x - x_offset - f.margin_left) * z),
      Max(0, (box.y - y_offset - f.margin_top) * z)>>

\* How far the page moves on window.scrollBy along one axis when asked for d:
\* not at all (the page ends there) or all the way.
ScrollOutcomes(d) == {0, d}

\* _scroll_to_element, lines 216-229.
ScrollBy ==
    /\ pc = "scroll_by"
    /\ \/ \* one of the three reads fails
          /\ Raise("WebDriverException")
          /\ UNCHANGED <<trace, page>>
       \/ LET delta == ScrollDelta(element[1], finder[1], page.scroll_x,
                                   page.scroll_y, zoom)
              issued == trace \o <<
                  <<"read_viewport", <<page.scroll_x, page.scroll_y, page.dpr>>>>,
                  <<"scrollBy", delta>> >>
          IN  /\ trace' = issued
              /\ \/ Raise("WebDriverException") /\ UNCHANGED page
                 \/ /\ \E mx \in ScrollOutcomes(delta[1]),
                          my \in ScrollOutcomes(delta[2]) :
                          page' = [page EXCEPT !.scroll_x = @ + mx,
                                               !.scroll_y = @ + my]
                    /\ pc' = "progress_detect"
                    /\ UNCHANGED error
    /\ UNCHANGED <<Config, Locals, driver>>

\* Line 154.
ProgressDetect ==
    TriggerProgress("progress_detect", MSG_DETECT, "determine_crop_area")

\* Only the missing element returns early: zero margins reach the arithmetic.
NoCrop_ElementOnly(elem, f) == elem = None

\* _determine_crop_area, lines 232-236: the early return of None.
NoCrop(elem, f) ==
    \/ elem = None
    \/ ~(\/ f[1].margin_top # 0
         \/ f[1].margin_left # 0
         \/ f[1].margin_right # 0
         \/ f[1].margin_bottom # 0)

\* _determine_crop_area, lines 242-264, as <<left, top, right, bottom>>.
CropArea(box, f, x_offset, y_offset, dpr, z) ==
    LET top == IF f.margin_top # 0
               THEN Max(0, (box.y - y_offset - f.margin_top) * z * dpr)
               ELSE 0
        left == IF f.margin_left # 0
                THEN Max(0, (box.x - x_offset - f.margin_left) * z * dpr)
                ELSE 0
        right == IF f.margin_right # 0
                 THEN (box.x - x_offset + box.width + f.margin_right) * z * dpr
                 ELSE 0
        bottom == IF f.margin_bottom # 0
                  THEN (box.y - y_offset + box.height + f.margin_bottom) * z * dpr
                  ELSE 0
    IN  <<left, top, right, bottom>>

\* The crop computed from the offsets read before the scroll, not read again.
DetermineCropArea_StaleViewport ==
    /\ pc = "determine_crop_area"
    /\ IF NoCrop(element, finder)
       THEN /\ crop_area' = None
            /\ pc' = "progress_shoot"
            /\ UNCHANGED <<trace, error>>
       ELSE LET seen == SelectSeq(trace, LAMBDA e : e[1] = "read_viewport")[1][2]
            IN  /\ trace' = Append(trace,
                     <<"read_viewport", <<page.scroll_x, page.scroll_y, page.dpr>>>>)
                /\ crop_area' = CropArea(element[1], finder[1], seen[1], seen[2],
                                         seen[3], zoom)
                /\ pc' = "progress_shoot"
                /\ UNCHANGED error
    /\ UNCHANGED <<Config, element, screenshot, result, driver, page>>

\* _determine_crop_area, lines 231-264.
DetermineCropArea ==
    /\ pc = "determine_crop_area"
    /\ IF NoCrop(element, finder)
       THEN /\ crop_area' = None
            /\ pc' = "progress_shoot"
            /\ UNCHANGED <<trace, error>>
       ELSE \/ \* one of the three reads fails
               /\ Raise("WebDriverException")
               /\ UNCHANGED <<trace, crop_area>>
            \/ /\ trace' = Append(trace,
                    <<"read_viewport", <<page.scroll_x, page.scroll_y, page.dpr>>>>)
               /\ crop_area' = CropArea(element[1], finder[1], page.scroll_x,
                                        page.scroll_y, page.dpr, zoom)
               /\ pc' = "progress_shoot"
               /\ UNCHANGED error
    /\ UNCHANGED <<Config, element, screenshot, result, driver, page>>

\* Line 157.
ProgressShoot == TriggerProgress("progress_shoot", MSG_SHOOT, "take_screenshot")

\* The raster save_screenshot writes: the viewport in physical pixels.
ImageSize == <<page.viewport[1] * page.dpr, page.viewport[2] * page.dpr>>

\* The box used as computed, a 0 right or bottom edge included.
ResolveCrop_AsComputed(crop, width, height) == crop

\* _take_screenshot, lines 271-273: `crop_area[2] or img.width`, and bottom.
ResolveCrop(crop, width, height) ==
    <<crop[1], crop[2],
      IF crop[3] # 0 THEN crop[3] ELSE width,
      IF crop[4] # 0 THEN crop[4] ELSE height>>

\* _take_screenshot, lines 266-278. The file holds the full raster, or the
\* raster cut to new_crop once img.crop and save have succeeded.
TakeScreenshot ==
    /\ pc = "take_screenshot"
    /\ \/ \* save_screenshot fails
          /\ trace' = Append(trace, <<"save_screenshot", <<>>>>)
          /\ Raise("WebDriverException")
          /\ UNCHANGED screenshot
       \/ /\ crop_area = None
          /\ trace' = Append(trace, <<"save_screenshot", <<>>>>)
          /\ screenshot' = <<[size |-> ImageSize, crop |-> None]>>
          /\ pc' = "progress_ai"
          /\ UNCHANGED error
       \/ /\ crop_area # None
          /\ LET new_crop == ResolveCrop(crop_area, ImageSize[1], ImageSize[2])
             IN  /\ trace' = trace \o << <<"save_screenshot", <<>>>>,
                                         <<"crop", new_crop>> >>
                 /\ \/ \* the codec rejects the box
                       /\ Raise("ImageError")
                       /\ screenshot' = <<[size |-> ImageSize, crop |-> None]>>
                    \/ /\ screenshot' = <<[size |-> ImageSize, crop |-> new_crop]>>
                       /\ pc' = "progress_ai"
                       /\ UNCHANGED error
    /\ UNCHANGED <<Config, element, crop_area, result, driver, page>>

\* Line 162.
ProgressAI == TriggerProgress("progress_ai", MSG_AI, "process_screenshot")

\* _process_screenshot, lines 280-286, with openai_chat, lines 297-344.
ProcessScreenshot ==
    /\ pc = "process_screenshot"
    /\ trace' = Append(trace, <<"openai_chat", <<>>>>)
    /\ \/ Raise("APIError") /\ UNCHANGED result
       \/ /\ result' = "summary"
          /\ pc' = "finally"
          /\ UNCHANGED error
    /\ UNCHANGED <<Config, element, crop_area, screenshot, driver, page>>

\* A finally block that returns: the exception in flight is dropped.
Finally_Swallows ==
    /\ pc = "finally"
    /\ driver' = "quit"
    /\ trace' = Append(trace, <<"quit", <<>>>>)
    /\ pc' = "returned"
    /\ UNCHANGED <<Config, Locals, page, error>>

\* browse_site, lines 165-166: the finally block, then the return of `result`
\* or the exception in flight continuing to the caller.
Finally ==
    /\ pc = "finally"
    /\ driver' = "quit"
    /\ trace' = Append(trace, <<"quit", <<>>>>)
    /\ pc' = IF error = Null THEN "returned" ELSE "raised"
    /\ UNCHANGED <<Config, Locals, page, error>>

Next ==
    \/ NewXpathFinder
    \/ NewStringFinder
    \/ NewIdFinder
    \/ NewCssFinder
    \/ NoFinder
    \/ SukushoSummaryInit
    \/ LaunchChrome
    \/ ImplicitlyWait
    \/ SetWindowSize
    \/ OnProgress
    \/ ProgressBrowse
    \/ Navigate
    \/ InjectZoom
    \/ ProgressAnalyze
    \/ FindElement
    \/ ScrollBy
    \/ ProgressDetect
    \/ DetermineCropArea
    \/ ProgressShoot
    \/ TakeScreenshot
    \/ ProgressAI
    \/ ProcessScreenshot
    \/ Finally

Spec == Init /\ [][Next]_vars

\* ===================================================================
\* Properties
\* ===================================================================
Ops == [i \in DOMAIN trace |-> trace[i][1]]
Count(op) == Cardinality({i \in DOMAIN trace : trace[i][1] = op})
Performed(op) == Count(op) > 0
\* The arguments of every call of op, in order.
Calls(op) ==
    LET called == SelectSeq(trace, LAMBDA e : e[1] = op)
    IN  [i \in DOMAIN called |-> called[i][2]]
\* The messages the listener received, in order.
Delivered ==
    LET called == SelectSeq(trace, LAMBDA e : e[1] = "progress")
    IN  [i \in DOMAIN called |-> called[i][2][1]]
Messages == <<MSG_BROWSE, MSG_ANALYZE, MSG_DETECT, MSG_SHOOT, MSG_AI>>
IsPrefix(a, b) == Len(a) <= Len(b) /\ a = SubSeq(b, 1, Len(a))

Launched == driver # "absent"
BackAtCaller == pc \in {"finder_raised", "init_raised", "returned", "raised"}

\* C1: a session that was launched is released exactly once by the time
\* control is back at the caller, whether browse_site returned or raised or
\* the construction failed after the launch; it is never released twice.
C1_ReleasedExactlyOnce ==
    /\ Count("quit") <= 1
    /\ (BackAtCaller /\ Launched) => (Count("quit") = 1 /\ driver = "quit")

\* the leak: construction failed after the launch and nothing quits the driver
C1_LeakReached == pc = "init_raised" /\ driver = "live"

\* ------------------------------------------------------------------- C2
\* The eight states the orchestrator is said to pass through.
OrchestratorStates ==
    <<"INIT", "NAVIGATING", "LOCATING", "COMPUTING_GEOMETRY", "SCROLLING",
      "CAPTURING", "SUMMARIZING", "DONE">>

\* The stage of browse_site a trace entry belongs to: 1 navigation, 2 locating
\* and scrolling, 3 crop computation, 4 capture, 5 summarization, 6 teardown;
\* 0 for what precedes browse_site.
Stage(i) ==
    LET op == trace[i][1]
    IN  CASE op = "progress" ->
                (LET m == trace[i][2][1]
                 IN  CASE m = MSG_BROWSE -> 1
                       [] m = MSG_ANALYZE -> 2
                       [] m = MSG_DETECT -> 3
                       [] m = MSG_SHOOT -> 4
                       [] m = MSG_AI -> 5)
          [] op \in {"get", "zoom"} -> 1
          [] op \in {"find_element", "scrollBy"} -> 2
          [] op = "read_viewport" ->
                IF i < Len(trace) /\ trace[i + 1][1] = "scrollBy" THEN 2 ELSE 3
          [] op \in {"save_screenshot", "crop"} -> 4
          [] op = "openai_chat" -> 5
          [] op = "quit" -> 6
          [] OTHER -> 0

\* The external calls of a run, without the listener deliveries.
Work == SelectSeq(Ops, LAMBDA op : op \notin FinderKinds \cup {"progress"})
WorkOfCompleteRun ==
    <<"Chrome", "implicitly_wait", "window_size", "get", "zoom">>
        \o (IF finder # None THEN <<"find_element", "read_viewport", "scrollBy">>
            ELSE <<>>)
        \o (IF crop_area # None THEN <<"read_viewport">> ELSE <<>>)
        \o <<"save_screenshot">>
        \o (IF crop_area # None THEN <<"crop">> ELSE <<>>)
        \o <<"openai_chat", "quit">>

\* C2 as claimed: on a completed run the listener has been invoked once per
\* transition of the eight-state sequence, and the crop geometry (the second
\* viewport read) is computed before the scroll is issued.
C2_ListenerAtEveryTransition ==
    (pc = "returned" /\ listener # Null) =>
        /\ Len(Delivered) = Len(OrchestratorStates) - 1
        /\ \A i, j \in DOMAIN trace :
             (Stage(i) = 3 /\ trace[j][1] = "scrollBy") => i < j

\* C2 amended: browse_site runs navigation, locating-and-scrolling, crop
\* computation, capture, summarization and teardown in this order; a
\* registered listener receives the five messages in source order, each
\* before any work of its stage and nothing else (no message between locating
\* and scrolling, none on completion); a completed run has delivered exactly
\* the five messages and performed every stage's calls (the lookup and scroll
\* only with a locator, the crop computation only with a crop); with no
\* listener nothing is delivered and no listener error arises.
C2_FiveStagesInOrder ==
    /\ \A i \in 1..(Len(trace) - 1) : Stage(i) <= Stage(i + 1)
    /\ IsPrefix(Delivered, Messages)
    /\ listener # Null =>
         \A i \in DOMAIN trace :
            (Stage(i) \in 1..5 /\ (i = 1 \/ Stage(i - 1) < Stage(i)))
                => trace[i][1] = "progress"
    /\ listener = Null => (Delivered = <<>> /\ error # "ListenerError")
    /\ pc = "returned" =>
         /\ Delivered = (IF listener # Null THEN Messages ELSE <<>>)
         /\ Work = WorkOfCompleteRun

C2_CompleteRunWithListener ==
    /\ pc = "returned"
    /\ listener # Null
    /\ finder # None
    /\ crop_area # None

\* ------------------------------------------------------------------- C3
Quit == <<"quit", <<>>>>

\* C3: a failure inside browse_site is not swallowed: once an error is in
\* flight it stays that error, nothing more of the pipeline runs (the trace
\* only grows by the teardown), the caller receives it after the session was
\* released, and no result text exists; browse_site returns a text only when
\* no error arose and navigation, capture and summarization were all performed.
C3_ErrorSurvivesTeardown ==
    /\ [](pc = "raised" =>
            /\ error # Null
            /\ result = Null
            /\ driver = "quit"
            /\ trace[Len(trace)] = Quit
            /\ Count("quit") = 1)
    /\ [](pc = "returned" =>
            /\ error = Null
            /\ result # Null
            /\ driver = "quit"
            /\ Performed("get") /\ Performed("zoom")
            /\ Performed("save_screenshot") /\ Performed("openai_chat"))
    /\ [][error # Null =>
            /\ error' = error
            /\ result' = Null
            /\ trace' \in {trace, Append(trace, Quit)}]_vars

C3_CaptureFailureDelivered ==
    /\ pc = "raised"
    /\ error = "ImageError"
    /\ finder # None

\* ------------------------------------------------------------------- C4
\* The outcome of the one lookup of a run, "" before it.
LookupOutcome ==
    LET looked == Calls("find_element")
    IN  IF looked = <<>> THEN "" ELSE looked[1][2]

\* C4: a lookup that reports no match makes browse_site fail with
\* ElementNotFoundError and with nothing else, any other lookup failure
\* passes unchanged; after a failed lookup no scroll, viewport read, crop,
\* capture or summarization is performed, and the caller receives the error
\* with the session quit exactly once.
C4_NotFoundIsDistinct ==
    /\ LookupOutcome = "NoSuchElementException" <=> error = "ElementNotFoundError"
    /\ LookupOutcome = "WebDriverException" => error = "WebDriverException"
    /\ LookupOutcome \in LookupFailures =>
         /\ finder # None
         /\ pc \in {"finally", "raised"}
         /\ element = None /\ crop_area = None /\ screenshot = None
         /\ result = Null
         /\ ~Performed("scrollBy") /\ ~Performed("read_viewport")
         /\ ~Performed("save_screenshot") /\ ~Performed("crop")
         /\ ~Performed("openai_chat")
         /\ pc = "raised" => (Count("quit") = 1 /\ driver = "quit")

C4_NotFoundDelivered ==
    /\ pc = "raised"
    /\ error = "ElementNotFoundError"
    /\ LookupOutcome = "NoSuchElementException"

\* ------------------------------------------------------------------- C5
\* browse_site has passed the scroll-to-element step without failing.
PastScrolling ==
    pc \in {"progress_detect", "determine_crop_area", "progress_shoot",
            "take_screenshot", "progress_ai", "process_screenshot", "returned"}
Captured == screenshot # None

\* C5: without a locator browse_site looks nothing up, issues no scroll, reads
\* no viewport state and computes no crop (crop_area stays None), the file
\* holds the full screenshot as captured, and a run that returns has sent that
\* uncropped file to summarization.
C5_NoLocatorFullViewport ==
    (finder = None /\ pc # "start") =>
        /\ ~Performed("find_element")
        /\ ~Performed("scrollBy")
        /\ ~Performed("read_viewport")
        /\ ~Performed("crop")
        /\ element = None
        /\ crop_area = None
        /\ Captured => screenshot[1] = [size |-> ImageSize, crop |-> None]
        /\ pc = "returned" =>
             (Captured /\ Performed("openai_chat") /\ result # Null)

C5_NoLocatorSummarized ==
    /\ finder = None
    /\ pc = "returned"
    /\ Captured

\* ------------------------------------------------------------------- C6
AllMarginsZero(f) ==
    /\ f.margin_top = 0
    /\ f.margin_left = 0
    /\ f.margin_right = 0
    /\ f.margin_bottom = 0

\* C6: with a locator whose four margins are zero the crop rectangle is
\* absent whatever the box, the scroll offsets, the zoom and the pixel ratio
\* are, the capture keeps the full screenshot and applies no crop, and the
\* scroll towards the element has still been issued once the element is found.
C6_ZeroMarginsNoCrop ==
    (finder # None /\ AllMarginsZero(finder[1])) =>
        /\ crop_area = None
        /\ ~Performed("crop")
        /\ Captured => screenshot[1] = [size |-> ImageSize, crop |-> None]
        /\ PastScrolling =>
             (element # None /\ Count("scrollBy") = 1 /\ Count("read_viewport") = 1)

C6_ZeroMarginsCaptured ==
    /\ finder # None
    /\ AllMarginsZero(finder[1])
    /\ Captured
    /\ element # None
    /\ element[1].x # 0
    /\ zoom > 1
    /\ page.dpr > 1

\* ------------------------------------------------------------------- C7
Cropped == Captured /\ screenshot[1].crop # None

\* C7: a crop whose computed right (bottom) value is 0 is applied with the
\* image width (height) as its right (bottom) edge and every other value as
\* computed; margin_right = 0 with margin_left > 0 always is such a crop, so
\* its right edge is the captured image's width whatever the geometry.
C7_ZeroEdgeIsImageEdge ==
    /\ \A c \in {Calls("crop")[i] : i \in DOMAIN Calls("crop")} :
         /\ crop_area # None
         /\ c[1] = crop_area[1]
         /\ c[2] = crop_area[2]
         /\ c[3] = (IF crop_area[3] = 0 THEN ImageSize[1] ELSE crop_area[3])
         /\ c[4] = (IF crop_area[4] = 0 THEN ImageSize[2] ELSE crop_area[4])
         /\ (finder[1].margin_right = 0 /\ finder[1].margin_left > 0)
                => c[3] = ImageSize[1]
         /\ (finder[1].margin_bottom = 0 /\ finder[1].margin_top > 0)
                => c[4] = ImageSize[2]
    /\ Cropped =>
         /\ Calls("crop") = <<screenshot[1].crop>>
         /\ screenshot[1].size = ImageSize

C7_RightSentinelApplied ==
    /\ Cropped
    /\ finder[1].margin_right = 0
    /\ finder[1].margin_left > 0
    /\ screenshot[1].crop[3] = screenshot[1].size[1]
    /\ screenshot[1].crop[1] > 0

\* a right edge computed to 0 although margin_right > 0
C7_ComputedZeroRight ==
    /\ Cropped
    /\ finder[1].margin_right > 0
    /\ zoom > 0
    /\ crop_area[3] = 0

\* ------------------------------------------------------------------- C8
\* The run of main.py's locator on a box at (100, 200) of 50 x 20, zoom 1.0,
\* pixel ratio 1.0, the page at the origin when the scroll is computed; the
\* crop rectangle has been computed.
SampleRun ==
    /\ pc = "progress_shoot"
    /\ finder = <<NewFinder("StringFinder", SampleMargins[1], SampleMargins[2],
                            SampleMargins[3], SampleMargins[4])>>
    /\ zoom = 1
    /\ element = <<SampleBox>>
    /\ Calls("read_viewport")[1] = <<0, 0, 1>>

\* C8 as claimed: the sample run issues scrollBy(80, 199) and then computes
\* the crop rectangle (80, 199, 170, 340).
C8_SampleCropAsClaimed ==
    SampleRun =>
        /\ Calls("scrollBy") = << <<80, 199>> >>
        /\ crop_area = <<80, 199, 170, 340>>

\* C8 amended: the sample run issues scrollBy(80, 199); the crop rectangle is
\* computed afterwards from the scroll offsets (sx, sy) read again at that
\* point and is (max(0, 80 - sx), max(0, 199 - sy), 170 - sx, 340 - sy): it is
\* (80, 199, 170, 340) exactly when the page did not move and (0, 0, 90, 141)
\* when the page scrolled all the way.
C8_SampleCropAfterScroll ==
    SampleRun =>
        /\ Calls("scrollBy") = << <<80, 199>> >>
        /\ Len(Calls("read_viewport")) = 2
        /\ LET again == Calls("read_viewport")[2]
               sx == again[1]
               sy == again[2]
           IN  /\ again = <<page.scroll_x, page.scroll_y, page.dpr>>
               /\ sx \in {0, 80} /\ sy \in {0, 199}
               /\ crop_area = <<Max(0, 80 - sx), Max(0, 199 - sy),
                                170 - sx, 340 - sy>>
               /\ crop_area = <<80, 199, 170, 340>> <=> (sx = 0 /\ sy = 0)
               /\ (sx = 80 /\ sy = 199) => crop_area = <<0, 0, 90, 141>>

C8_SampleRunScrolled ==
    /\ SampleRun
    /\ page.scroll_x = 80
    /\ page.scroll_y = 199
    /\ crop_area = <<0, 0, 90, 141>>

\* ------------------------------------------------------------------- C9
NonNegative(m) == \A k \in 1..4 : m[k] >= 0

\* C9: a locator of any of the four kinds constructed with margins
\* (top, left, right, bottom) that are all >= 0 exists and stores exactly
\* those values; with any negative margin the construction raises ValueError,
\* no locator exists and no browser session has been launched or used; so the
\* locator of every pipeline has four margins >= 0.
C9_MarginsCheckedAtConstruction ==
    /\ \A i \in DOMAIN trace :
         trace[i][1] \in FinderKinds =>
            /\ i = 1
            /\ LET m == trace[i][2]
               IN  IF NonNegative(m)
                   THEN /\ pc # "finder_raised"
                        /\ finder = <<[kind |-> trace[i][1],
                                       margin_top |-> m[1],
                                       margin_left |-> m[2],
                                       margin_right |-> m[3],
                                       margin_bottom |-> m[4]]>>
                   ELSE /\ pc = "finder_raised"
                        /\ error = "ValueError"
                        /\ finder = None
                        /\ driver = "absent"
                        /\ Len(trace) = 1
    /\ finder # None =>
         /\ trace[1][1] = finder[1].kind
         /\ finder[1].margin_top >= 0 /\ finder[1].margin_left >= 0
         /\ finder[1].margin_right >= 0 /\ finder[1].margin_bottom >= 0

C9_NegativeRightRejected ==
    /\ pc = "finder_raised"
    /\ trace[1][1] = "IdFinder"
    /\ trace[1][2][1] > 0
    /\ trace[1][2][2] = 0
    /\ trace[1][2][3] < 0
    /\ trace[1][2][4] > 0

C9_ZeroAndPositiveStored ==
    /\ pc = "returned"
    /\ finder # None
    /\ finder[1].kind = "CssFinder"
    /\ finder[1].margin_top = 0
    /\ finder[1].margin_bottom > 0

\* ------------------------------------------------------------------ C10
\* C10: the delta handed to window.scrollBy has both coordinates >= 0 and each
\* is max(0, (box position - scroll offset read just before - margin) * zoom),
\* without the device pixel ratio.
C10_ScrollDeltaNeverNegative ==
    Performed("scrollBy") =>
        LET delta == Calls("scrollBy")[1]
            seen == Calls("read_viewport")[1]
            box == element[1]
            f == finder[1]
        IN  /\ Count("scrollBy") = 1
            /\ delta[1] >= 0
            /\ delta[2] >= 0
            /\ delta[1] = Max(0, (box.x - seen[1] - f.margin_left) * zoom)
            /\ delta[2] = Max(0, (box.y - seen[2] - f.margin_top) * zoom)

C10_ClampedAndScaled ==
    /\ Performed("scrollBy")
    /\ element[1].x - Calls("read_viewport")[1][1] - finder[1].margin_left < 0
    /\ Calls("scrollBy")[1][1] = 0
    /\ Calls("scrollBy")[1][2] > 1
    /\ zoom > 1
    /\ page.dpr > 1

====
